---- MODULE Spec2Model ----
(***************************************************************************)
(* Model of mtu.py: the ping probe, the interface / MTU / tracepath        *)
(* helpers, the binary search find_best_mtu and the __main__ sequence.     *)
(*                                                                         *)
(* Two specifications:                                                     *)
(*   Spec        the script as run from __main__ (default search range);   *)
(*   SearchSpec  find_best_mtu called with arguments drawn from bounded    *)
(*               sets (valid and degenerate ranges), any probe outcomes.   *)
(* FairSpec / FairSearchSpec add weak fairness: the script is sequential   *)
(* and every blocking call returns or raises.                              *)
(***************************************************************************)
EXTENDS Integers, Sequences, FiniteSets, TLC

VARIABLES
    pc,                  \* position in the script
    system_name,         \* platform.system()
    euid,                \* os.geteuid()
    interface,           \* main: interface (<<>> is None)
    mtu_val,             \* main: mtu_val
    min_mtu, max_mtu, wireguard_overhead,   \* arguments of find_best_mtu
    low, high, best_mtu, \* locals of find_best_mtu
    mtu,                 \* value returned by find_best_mtu (<<>> before)
    recommended,         \* value printed as the recommendation (<<>> if none)
    exit_status,         \* <<>> while running, <<n>> once the process ended
    calls,               \* component calls made so far, with what they gave
    last,                \* raw outcome of the most recent external call
    interrupted          \* a user interrupt (SIGINT) has been delivered

vars == <<pc, system_name, euid, interface, mtu_val, min_mtu, max_mtu,
          wireguard_overhead, low, high, best_mtu, mtu, recommended,
          exit_status, calls, last, interrupted>>

----------------------------------------------------------------------------
(* Bounds of the model *)

MaxVal == 9          \* SearchSpec: min_mtu and max_mtu range over 1..MaxVal
MaxOverhead == 3     \* SearchSpec: wireguard_overhead ranges over 0..MaxOverhead

(* Program constants *)

DefaultMinMtu == 576
DefaultMaxMtu == 1500
DefaultOverhead == 80

Platforms == {"Linux", "Android", "Windows", "Darwin"}
Supported == {"Linux", "Android", "Windows"}

\* what subprocess.run(["ping", ...], check=True) can do
PingOutcomes == {"ok", "nonzero", "missing", "error", "interrupt"}
\* what subprocess.run(["ip", "route", "show", "default"]) and the parse can do
RouteOutcomes == {"dev", "noroute", "devlast", "failed", "missing", "interrupt"}
\* what open(/sys/class/net/<if>/mtu) and int() can do
SysfsOutcomes == {"value", "unreadable", "garbage", "interrupt"}
\* what subprocess.run(["tracepath", "-n", host], check=True) can do
TraceOutcomes == {"ok", "missing", "failed", "interrupt"}

\* exit status of an interpreter ended by an unhandled KeyboardInterrupt:
\* 1 (traceback exit) or 130 (re-raised SIGINT), depending on the interpreter
UncaughtStatus == {1, 130}

----------------------------------------------------------------------------
(* Pure parts *)

\* result of a call: the value returned, or an exception leaving the function
Returned(v) == [raised |-> FALSE, value |-> v]
Raised == [raised |-> TRUE, value |-> 0]

\* ping without the "except Exception" clause
ping_ErrorEscapes(o) ==
    CASE o = "ok" -> Returned(TRUE)
      [] o = "nonzero" -> Returned(FALSE)
      [] OTHER -> Raised

\* ping(host, size): True, False, or the KeyboardInterrupt passing through
ping(o) ==
    CASE o = "ok" -> Returned(TRUE)
      [] o = "nonzero" -> Returned(FALSE)
      [] o \in {"missing", "error"} -> Returned(FALSE)
      [] OTHER -> Raised

\* get_default_interface letting a failed "ip route" escape
get_default_interface_FailureEscapes(sys, o) ==
    IF sys = "Windows" THEN Returned(<<>>)
    ELSE CASE o = "dev" -> Returned(<<"eth0">>)
           [] o \in {"noroute", "devlast"} -> Returned(<<>>)
           [] OTHER -> Raised

\* get_default_interface(): <<name>>, <<>> for None, or KeyboardInterrupt
get_default_interface(sys, o) ==
    IF sys = "Windows" THEN Returned(<<>>)
    ELSE CASE o = "dev" -> Returned(<<"eth0">>)
           [] o \in {"noroute", "devlast", "failed", "missing"} -> Returned(<<>>)
           [] OTHER -> Raised

\* get_current_mtu(interface): the value, -1, or KeyboardInterrupt
get_current_mtu(sys, o) ==
    IF sys = "Windows" THEN Returned(-1)
    ELSE CASE o = "value" -> Returned(DefaultMaxMtu)
           [] o \in {"unreadable", "garbage"} -> Returned(-1)
           [] OTHER -> Raised

\* get_mtu_traceroute(host): returns None or lets KeyboardInterrupt through
get_mtu_traceroute(sys, o) ==
    IF sys = "Windows" THEN Returned(0)
    ELSE CASE o \in {"ok", "missing", "failed"} -> Returned(0)
           [] OTHER -> Raised

\* if system_name not in ("Linux", "Android", "Windows")
UnsupportedPlatform(sys) == sys \notin Supported

\* privilege test that never fires
MissingRoot_Never(sys, uid) == FALSE

\* if system_name == "Linux" and os.geteuid() != 0
MissingRoot(sys, uid) == sys = "Linux" /\ uid # 0

\* upper end of the range without the overhead taken off
adjusted_max_NoOverhead(maxm, ov) == maxm

adjusted_max(maxm, ov) == maxm - ov

\* linear scan from the low end instead of bisection
mid_Linear(lo, hi) == lo

mid(lo, hi) == (lo + hi) \div 2

\* while body with "best_mtu = mid" outside the if
LoopBody_BestAlways(lo, hi, best, r) ==
    IF r
    THEN [low |-> mid(lo, hi) + 1, high |-> hi, best_mtu |-> mid(lo, hi)]
    ELSE [low |-> lo, high |-> mid(lo, hi) - 1, best_mtu |-> mid(lo, hi)]

\* one pass of the while body, r = ping(host, mid)
LoopBody(lo, hi, best, r) ==
    IF r
    THEN [low |-> mid(lo, hi) + 1, high |-> hi, best_mtu |-> mid(lo, hi)]
    ELSE [low |-> lo, high |-> mid(lo, hi) - 1, best_mtu |-> best]

\* return of the raw payload size
ReturnValue_NoOverhead(best, ov) == best

ReturnValue(best, ov) == best + ov

Call(fn, arg, ret) == [fn |-> fn, arg |-> arg, ret |-> ret]

----------------------------------------------------------------------------
(* find_best_mtu *)

SearchInit ==
    /\ pc = "search"
    /\ low' = min_mtu
    /\ high' = adjusted_max(max_mtu, wireguard_overhead)
    /\ best_mtu' = min_mtu
    /\ pc' = "loop"
    /\ UNCHANGED <<system_name, euid, interface, mtu_val, min_mtu, max_mtu,
                   wireguard_overhead, mtu, recommended, exit_status, calls, last, interrupted>>

SearchProbe ==
    /\ pc = "loop"
    /\ low <= high
    /\ \E o \in PingOutcomes :
         LET r == ping(o)
             n == LoopBody(low, high, best_mtu, r.value)
         IN /\ last' = o
            /\ interrupted' = (interrupted \/ o = "interrupt")
            /\ calls' = Append(calls, Call("ping", mid(low, high),
                                 IF r.raised THEN "raised"
                                 ELSE IF r.value THEN "ok" ELSE "fail"))
            /\ IF r.raised
               THEN /\ pc' = "raised"
                    /\ UNCHANGED <<low, high, best_mtu>>
               ELSE /\ pc' = "loop"
                    /\ low' = n.low
                    /\ high' = n.high
                    /\ best_mtu' = n.best_mtu
    /\ UNCHANGED <<system_name, euid, interface, mtu_val, min_mtu, max_mtu,
                   wireguard_overhead, mtu, recommended, exit_status>>

SearchReturn ==
    /\ pc = "loop"
    /\ low > high
    /\ mtu' = <<ReturnValue(best_mtu, wireguard_overhead)>>
    /\ pc' = "returned"
    /\ UNCHANGED <<system_name, euid, interface, mtu_val, min_mtu, max_mtu,
                   wireguard_overhead, low, high, best_mtu, recommended,
                   exit_status, calls, last, interrupted>>

----------------------------------------------------------------------------
(* __main__ *)

CheckPlatform ==
    /\ pc = "platform"
    /\ IF UnsupportedPlatform(system_name)
       THEN /\ exit_status' = <<1>>
            /\ pc' = "exit"
       ELSE /\ pc' = "privilege"
            /\ UNCHANGED exit_status
    /\ UNCHANGED <<system_name, euid, interface, mtu_val, min_mtu, max_mtu,
                   wireguard_overhead, low, high, best_mtu, mtu, recommended,
                   calls, last, interrupted>>

CheckPrivilege ==
    /\ pc = "privilege"
    /\ IF MissingRoot(system_name, euid)
       THEN /\ exit_status' = <<1>>
            /\ pc' = "exit"
       ELSE /\ pc' = "interface"
            /\ UNCHANGED exit_status
    /\ UNCHANGED <<system_name, euid, interface, mtu_val, min_mtu, max_mtu,
                   wireguard_overhead, low, high, best_mtu, mtu, recommended,
                   calls, last, interrupted>>

\* interface = get_default_interface(); no handler around it in __main__
ResolveInterface ==
    /\ pc = "interface"
    /\ \E o \in (IF system_name = "Windows" THEN {"none"} ELSE RouteOutcomes) :
         LET r == get_default_interface(system_name, o)
         IN /\ last' = o
            /\ interrupted' = (interrupted \/ o = "interrupt")
            /\ IF r.raised
               THEN /\ calls' = Append(calls, Call("get_default_interface", 0, "raised"))
                    /\ \E st \in UncaughtStatus : exit_status' = <<st>>
                    /\ pc' = "exit"
                    /\ UNCHANGED interface
               ELSE /\ calls' = Append(calls, Call("get_default_interface", 0,
                                         IF r.value = <<>> THEN "fail" ELSE "ok"))
                    /\ interface' = r.value
                    /\ pc' = IF r.value # <<>> THEN "current_mtu" ELSE "trace"
                    /\ UNCHANGED exit_status
    /\ UNCHANGED <<system_name, euid, mtu_val, min_mtu, max_mtu,
                   wireguard_overhead, low, high, best_mtu, mtu, recommended>>

\* mtu_val = get_current_mtu(interface); no handler around it in __main__
ReadCurrentMtu ==
    /\ pc = "current_mtu"
    /\ \E o \in SysfsOutcomes :
         LET r == get_current_mtu(system_name, o)
         IN /\ last' = o
            /\ interrupted' = (interrupted \/ o = "interrupt")
            /\ IF r.raised
               THEN /\ calls' = Append(calls, Call("get_current_mtu", 0, "raised"))
                    /\ \E st \in UncaughtStatus : exit_status' = <<st>>
                    /\ pc' = "exit"
                    /\ UNCHANGED mtu_val
               ELSE /\ calls' = Append(calls, Call("get_current_mtu", 0,
                                         IF r.value = -1 THEN "fail" ELSE "ok"))
                    /\ mtu_val' = r.value
                    /\ pc' = "trace"
                    /\ UNCHANGED exit_status
    /\ UNCHANGED <<system_name, euid, interface, min_mtu, max_mtu,
                   wireguard_overhead, low, high, best_mtu, mtu, recommended>>

\* try: get_mtu_traceroute(target_host) / except KeyboardInterrupt: print
Trace ==
    /\ pc = "trace"
    /\ \E o \in (IF system_name = "Windows" THEN {"none"} ELSE TraceOutcomes) :
         LET r == get_mtu_traceroute(system_name, o)
         IN /\ last' = o
            /\ interrupted' = (interrupted \/ o = "interrupt")
            /\ calls' = Append(calls, Call("get_mtu_traceroute", 0,
                                 IF r.raised THEN "raised"
                                 ELSE IF o \in {"ok", "none"} THEN "ok" ELSE "fail"))
            /\ pc' = "search"
    /\ UNCHANGED <<system_name, euid, interface, mtu_val, min_mtu, max_mtu,
                   wireguard_overhead, low, high, best_mtu, mtu, recommended,
                   exit_status>>

\* print of the recommendation, then the script ends
Report ==
    /\ pc = "returned"
    /\ recommended' = mtu
    /\ exit_status' = <<0>>
    /\ pc' = "exit"
    /\ UNCHANGED <<system_name, euid, interface, mtu_val, min_mtu, max_mtu,
                   wireguard_overhead, low, high, best_mtu, mtu, calls, last, interrupted>>

\* except KeyboardInterrupt around find_best_mtu: print, sys.exit(0)
SearchInterrupted ==
    /\ pc = "raised"
    /\ exit_status' = <<0>>
    /\ pc' = "exit"
    /\ UNCHANGED <<system_name, euid, interface, mtu_val, min_mtu, max_mtu,
                   wireguard_overhead, low, high, best_mtu, mtu, recommended,
                   calls, last, interrupted>>

----------------------------------------------------------------------------
(* Specifications *)

Init ==
    /\ pc = "platform"
    /\ system_name \in Platforms
    /\ euid \in {0, 1000}
    /\ interface = <<>>
    /\ mtu_val = -1
    /\ min_mtu = DefaultMinMtu
    /\ max_mtu = DefaultMaxMtu
    /\ wireguard_overhead = DefaultOverhead
    /\ low = 0 /\ high = 0 /\ best_mtu = 0
    /\ mtu = <<>>
    /\ recommended = <<>>
    /\ exit_status = <<>>
    /\ calls = <<>>
    /\ last = "none"
    /\ interrupted = FALSE

Next ==
    \/ CheckPlatform
    \/ CheckPrivilege
    \/ ResolveInterface
    \/ ReadCurrentMtu
    \/ Trace
    \/ SearchInit
    \/ SearchProbe
    \/ SearchReturn
    \/ Report
    \/ SearchInterrupted

Spec == Init /\ [][Next]_vars

FairSpec == Init /\ [][Next]_vars /\ WF_vars(Next)

SearchArgs ==
    {<<DefaultMinMtu, DefaultMaxMtu, DefaultOverhead>>} \cup
    ((1..MaxVal) \X (1..MaxVal) \X (0..MaxOverhead))

InitSearch ==
    /\ pc = "search"
    /\ system_name = "Linux"
    /\ euid = 0
    /\ interface = <<>>
    /\ mtu_val = -1
    /\ \E a \in SearchArgs :
         /\ min_mtu = a[1]
         /\ max_mtu = a[2]
         /\ wireguard_overhead = a[3]
    /\ low = 0 /\ high = 0 /\ best_mtu = 0
    /\ mtu = <<>>
    /\ recommended = <<>>
    /\ exit_status = <<>>
    /\ calls = <<>>
    /\ last = "none"
    /\ interrupted = FALSE

NextSearch ==
    \/ SearchInit
    \/ SearchProbe
    \/ SearchReturn

SearchSpec == InitSearch /\ [][NextSearch]_vars

FairSearchSpec == InitSearch /\ [][NextSearch]_vars /\ WF_vars(NextSearch)

----------------------------------------------------------------------------
(* Notions used by the properties *)

PingCalls == {i \in 1..Len(calls) : calls[i].fn = "ping"}

NumProbes == Cardinality(PingCalls)

Probed(size, ret) ==
    \E i \in PingCalls : calls[i].arg = size /\ calls[i].ret = ret

\* the range handed to find_best_mtu is not degenerate
ValidRange == min_mtu <= max_mtu - wireguard_overhead

\* every probe made so far answered as a path of threshold T would
Threshold(T) ==
    \A i \in PingCalls : (calls[i].ret = "ok") <=> (calls[i].arg <= T)

RECURSIVE Pow2(_)
Pow2(k) == IF k = 0 THEN 1 ELSE 2 * Pow2(k - 1)

RECURSIVE CeilLog2From(_, _)
CeilLog2From(n, k) == IF Pow2(k) >= n THEN k ELSE CeilLog2From(n, k + 1)

\* ceil(log2(n)) for n >= 1
CeilLog2(n) == CeilLog2From(n, 0)

----------------------------------------------------------------------------
(* Properties *)

\* C1: over a valid range, when the probes answer as a threshold T within
\* the range (success exactly for sizes <= T), find_best_mtu returns
\* T + overhead.
C1_MonotoneBoundary ==
    (pc = "returned" /\ ValidRange) =>
        \A T \in min_mtu..(max_mtu - wireguard_overhead) :
            Threshold(T) => mtu = <<T + wireguard_overhead>>

\* C1 witness: range 576..1420, threshold 1380, result 1460
C1_Witness ==
    /\ pc = "returned"
    /\ min_mtu = 576 /\ max_mtu = 1500 /\ wireguard_overhead = 80
    /\ Threshold(1380)
    /\ mtu = <<1460>>

\* C2: over a valid range, whatever the probes answer, the value returned
\* lies in [min_mtu + overhead, max_mtu].
C2_ResultInRange ==
    (pc = "returned" /\ ValidRange) =>
        /\ mtu[1] >= min_mtu + wireguard_overhead
        /\ mtu[1] <= max_mtu

\* C2 witness: a search with failed and successful probes returned a value
\* strictly inside the interval
C2_Witness ==
    /\ pc = "returned"
    /\ ValidRange
    /\ \E i, j \in PingCalls : calls[i].ret = "ok" /\ calls[j].ret = "fail"
    /\ mtu[1] > min_mtu + wireguard_overhead
    /\ mtu[1] < max_mtu

\* C3: with a degenerate range (min_mtu > max_mtu - overhead) find_best_mtu
\* does not return an MTU value.
C3_DegenerateIsError ==
    (min_mtu > max_mtu - wireguard_overhead) =>
        (pc # "returned" /\ mtu = <<>>)

\* C4: over a valid range the search ends, the loop is left only with
\* low > high, and at most ceil(log2(adjusted_max - min_mtu + 1)) + 1 probes
\* are made.
C4_TerminatesWithinBound ==
    /\ <>(pc \in {"returned", "raised"})
    /\ [](pc = "returned" => low > high)
    /\ [](ValidRange =>
            NumProbes <= CeilLog2(max_mtu - wireguard_overhead - min_mtu + 1) + 1)

\* C4 witness: a search over at least four sizes that used the whole bound
C4_Witness ==
    /\ pc = "returned"
    /\ max_mtu - wireguard_overhead - min_mtu + 1 >= 4
    /\ NumProbes = CeilLog2(max_mtu - wireguard_overhead - min_mtu + 1) + 1

\* C5 as stated: on an unsupported platform, or without root on Linux or
\* Android, the run exits with status 1 and no component is ever called.
C5_PosixPrivilege ==
    (system_name \notin Supported
        \/ (system_name \in {"Linux", "Android"} /\ euid # 0)) =>
        /\ calls = <<>>
        /\ pc \in {"platform", "privilege", "exit"}
        /\ (pc = "exit" => exit_status = <<1>>)

\* C5 amended: on an unsupported platform, or without root on Linux, the run
\* exits with status 1 and no component is ever called.
C5_LinuxPrivilege ==
    (system_name \notin Supported \/ (system_name = "Linux" /\ euid # 0)) =>
        /\ calls = <<>>
        /\ pc \in {"platform", "privilege", "exit"}
        /\ (pc = "exit" => exit_status = <<1>>)

\* C5 witness: Linux without root has exited with status 1
C5_Witness ==
    /\ system_name = "Linux"
    /\ euid # 0
    /\ pc = "exit"
    /\ exit_status = <<1>>
    /\ calls = <<>>

\* C6: once a user interrupt has left the trace or a search probe, no
\* further component call is made.
C6_InterruptEndsRun ==
    \A i \in 1..Len(calls) :
        (calls[i].ret = "raised" /\ calls[i].fn \in {"get_mtu_traceroute", "ping"})
            => i = Len(calls)

\* C7: at exit the status is 0 after normal completion or a user interrupt,
\* and it is 1 exactly on an unsupported platform or missing privilege.
C7_ExitStatus ==
    pc = "exit" =>
        /\ (recommended # <<>> \/ interrupted) => exit_status = <<0>>
        /\ exit_status = <<1>> <=>
             (system_name \notin Supported \/ (system_name = "Linux" /\ euid # 0))

\* C8: components are called in the order interface resolution, current MTU,
\* trace, search; the run always ends; and a run that passed the
\* preconditions and saw no interrupt ran the trace and the whole search
\* and printed the recommendation, whatever failed before.
Rank(fn) ==
    CASE fn = "get_default_interface" -> 1
      [] fn = "get_current_mtu" -> 2
      [] fn = "get_mtu_traceroute" -> 3
      [] OTHER -> 4

InOrder ==
    \A i, j \in 1..Len(calls) :
        i < j => \/ Rank(calls[i].fn) < Rank(calls[j].fn)
                 \/ (calls[i].fn = "ping" /\ calls[j].fn = "ping")

Completed ==
    /\ Len(calls) >= 3
    /\ calls[1].fn = "get_default_interface"
    /\ (calls[1].ret = "ok") <=> (calls[2].fn = "get_current_mtu")
    /\ \E i \in 1..Len(calls) : calls[i].fn = "get_mtu_traceroute"
    /\ PingCalls # {}
    /\ low > high
    /\ mtu # <<>>
    /\ recommended = mtu
    /\ exit_status = <<0>>

C8_BestEffortSequence ==
    /\ <>(pc = "exit")
    /\ []InOrder
    /\ []((pc = "exit" /\ ~interrupted /\ system_name \in Supported
              /\ ~(system_name = "Linux" /\ euid # 0)) => Completed)

\* C8 witness: interface resolution and the trace failed and the
\* recommendation was printed; and the MTU read failed likewise
C8_Witness ==
    /\ pc = "exit"
    /\ ~interrupted
    /\ Len(calls) >= 3
    /\ calls[1].ret = "fail"
    /\ calls[2].fn = "get_mtu_traceroute" /\ calls[2].ret = "fail"
    /\ recommended # <<>>

\* C9: a probe that ends by a non-zero ping exit, a missing ping utility or
\* any other execution error sets high = mid - 1, leaves low and best_mtu,
\* and the search goes on; no size is probed twice.
C9_ErrorIsFailure ==
    /\ [](\A i, j \in PingCalls : calls[i].arg = calls[j].arg => i = j)
    /\ [][(pc = "loop" /\ low <= high /\ calls' # calls
             /\ last' \in {"nonzero", "missing", "error"})
          => /\ high' = ((low + high) \div 2) - 1
             /\ low' = low
             /\ best_mtu' = best_mtu
             /\ pc' = "loop"
             /\ exit_status' = exit_status
             /\ calls'[Len(calls')].ret = "fail"]_vars

\* C9 witness: after an earlier failed probe, a probe hit an execution
\* error and the search is still in its loop
C9_Witness ==
    /\ pc = "loop"
    /\ Len(calls) >= 2
    /\ calls[1].ret = "fail"
    /\ last \in {"missing", "error"}
    /\ high = calls[Len(calls)].arg - 1

\* C10: best_mtu never decreases in the loop; at return, with
\* b = result - overhead, either no probe succeeded and b = min_mtu, or b was
\* probed with success and b is the top of the range or b + 1 was probed and
\* failed.
C10_ObservedBoundary ==
    /\ [][pc = "loop" => best_mtu' >= best_mtu]_vars
    /\ []((pc = "returned" /\ ValidRange) =>
            LET b == mtu[1] - wireguard_overhead
            IN \/ (~\E i \in PingCalls : calls[i].ret = "ok") /\ b = min_mtu
               \/ /\ Probed(b, "ok")
                  /\ (b = max_mtu - wireguard_overhead \/ Probed(b + 1, "fail")))

\* C10 witness: the result sits below the top of the range, between a
\* successful probe and a failed one
C10_Witness ==
    /\ pc = "returned"
    /\ ValidRange
    /\ mtu[1] - wireguard_overhead < max_mtu - wireguard_overhead
    /\ Probed(mtu[1] - wireguard_overhead, "ok")
    /\ Probed(mtu[1] - wireguard_overhead + 1, "fail")
    /\ NumProbes >= 3

====
